---- MODULE Spec2Model ----
(***************************************************************************)
(* Books API (server.js): an express service whose handlers read, modify   *)
(* and rewrite one JSON file, books.json.  Every await of a handler is a   *)
(* point where another request's handler may run; fs.writeFile is an open  *)
(* with truncation followed by a write at offset 0.                        *)
(***************************************************************************)
EXTENDS Integers, Sequences, FiniteSets, TLC

\* ------------------------------------------------------------ bounds
\* Number of requests of a run that starts from a fresh deployment.
MaxReq == 3
\* Number of requests of a run that starts from an arbitrary backing file.
MaxFileReq == 2
\* Number of elements of the array an arbitrary backing file holds.
MaxFileLen == 2
\* Number of file operations that fail in one run.
MaxFaults == 1
\* Number of requests of a run in which every file operation settles.
MaxFairReq == 2

MaxOf(S) == CHOOSE x \in S : \A y \in S : y <= x
Reqs == 1..MaxOf({MaxReq, MaxFileReq, MaxFairReq})

\* ------------------------------------------------------------ JS values
\* A JavaScript value, tagged with its type; the same three fields for all.
JUndef == [t |-> "undefined", n |-> 0, s |-> ""]
JNull == [t |-> "null", n |-> 0, s |-> ""]
JNaN == [t |-> "number", n |-> 0, s |-> "NaN"]
JNum(n) == [t |-> "number", n |-> n, s |-> ""]
JStr(s) == [t |-> "string", n |-> 0, s |-> s]
JBool(b) == [t |-> "boolean", n |-> IF b THEN 1 ELSE 0, s |-> ""]

\* typeof v
TypeOf(v) == IF v.t = "null" THEN "object" ELSE v.t

\* !!v
Truthy(v) ==
  CASE v.t = "string" -> v.s # ""
    [] v.t = "number" -> v.n # 0 /\ v # JNaN
    [] v.t = "boolean" -> v.n = 1
    [] OTHER -> FALSE

DigitChar == <<"0", "1", "2", "3", "4", "5", "6", "7", "8", "9">>

RECURSIVE NumToStr(_)
NumToStr(n) ==
  IF n < 0 THEN "-" \o NumToStr(0 - n)
  ELSE IF n < 10 THEN DigitChar[n + 1]
  ELSE NumToStr(n \div 10) \o DigitChar[(n % 10) + 1]

\* String(v)
String(v) ==
  CASE v.t = "string" -> JStr(v.s)
    [] v.t = "number" -> JStr(IF v = JNaN THEN "NaN" ELSE NumToStr(v.n))
    [] v.t = "boolean" -> JStr(IF v.n = 1 THEN "true" ELSE "false")
    [] v.t = "null" -> JStr("null")
    [] OTHER -> JStr("undefined")

\* Boolean(v)
Boolean(v) == JBool(Truthy(v))

\* ------------------------------------------------------------ parseId
Digits == {DigitChar[i] : i \in 1..10}
DigitVal(c) == CHOOSE i \in 0..9 : DigitChar[i + 1] = c

\* The number of leading decimal digits of a sequence of characters.
RECURSIVE DigitRun(_)
DigitRun(cs) ==
  IF cs = <<>> \/ Head(cs) \notin Digits THEN 0 ELSE 1 + DigitRun(Tail(cs))

RECURSIVE DigitsValue(_, _)
DigitsValue(cs, acc) ==
  IF cs = <<>> THEN acc ELSE DigitsValue(Tail(cs), acc * 10 + DigitVal(Head(cs)))

RECURSIVE SkipSpace(_)
SkipSpace(cs) ==
  IF cs # <<>> /\ Head(cs) = " " THEN SkipSpace(Tail(cs)) ELSE cs

\* Number.parseInt(cs, 10): leading white space, an optional sign, then the
\* longest run of digits; whatever follows is ignored; no digit gives NaN.
ParseInt(cs) ==
  LET body == SkipSpace(cs)
      neg == body # <<>> /\ Head(body) = "-"
      signed == body # <<>> /\ Head(body) \in {"-", "+"}
      rest == IF signed THEN Tail(body) ELSE body
      k == DigitRun(rest)
      mag == DigitsValue(SubSeq(rest, 1, k), 0)
  IN IF k = 0 THEN JNaN ELSE JNum(IF neg THEN 0 - mag ELSE mag)

parseId(idStr) ==
  LET id == ParseInt(idStr) IN IF id = JNaN THEN JNull ELSE id

\* ------------------------------------------------------------ books
\* A record of the collection; a key the object lacks reads as undefined.
Book(id, title, author, available) ==
  [id |-> id, title |-> title, author |-> author, available |-> available]

IsObject(b) == b # JNull

\* A request body after express.json(): the three keys the handlers read
\* (undefined when absent) and whether it holds some other key.
Body(title, author, available, extra) ==
  [title |-> title, author |-> author, available |-> available, extra |-> extra]

EmptyBody == Body(JUndef, JUndef, JUndef, FALSE)

\* req.body || {}
BodyOrEmpty(b) == IF b = JUndef THEN EmptyBody ELSE b

\* Object.keys(updates)
Keys(u) ==
  {k \in {"title", "author", "available"} : u[k] # JUndef}
    \cup (IF u.extra THEN {"extra"} ELSE {})

allowed == {"title", "author", "available"}

\* Mutant: any key at all counts, allowed or not.
hasAnyKey(updates) == Keys(updates) # {}

hasAllowed(updates) == \E k \in Keys(updates) : k \in allowed

\* ------------------------------------------------------------ JSON text
\* The text of books.json is kept as what it parses to (doc) and its length
\* in characters (len).  An element of doc is an object, given by its
\* key/value pairs in order, or null.
Pair(k, v) == <<k, v>>
ObjElem(props) == [obj |-> TRUE, props |-> props]
NullElem == [obj |-> FALSE, props |-> <<>>]

BookKeys == <<"id", "title", "author", "available">>

\* A serializer that leaves out every key whose value is falsy.
RECURSIVE PropsOfTruthy(_, _)
PropsOfTruthy(b, ks) ==
  IF ks = <<>> THEN <<>>
  ELSE IF ~Truthy(b[Head(ks)]) THEN PropsOfTruthy(b, Tail(ks))
  ELSE <<Pair(Head(ks), b[Head(ks)])>> \o PropsOfTruthy(b, Tail(ks))

\* The pairs JSON.stringify emits for an object: a key whose value is
\* undefined is left out.
RECURSIVE PropsOf(_, _)
PropsOf(b, ks) ==
  IF ks = <<>> THEN <<>>
  ELSE IF b[Head(ks)] = JUndef THEN PropsOf(b, Tail(ks))
  ELSE <<Pair(Head(ks), b[Head(ks)])>> \o PropsOf(b, Tail(ks))

\* JSON.stringify(books, null, 2), as the document it denotes
Stringify(bs) ==
  [i \in 1..Len(bs) |->
     IF IsObject(bs[i]) THEN ObjElem(PropsOf(bs[i], BookKeys)) ELSE NullElem]

ValLen(v) ==
  CASE v.t = "number" -> Len(NumToStr(v.n))
    [] v.t = "string" -> Len(v.s) + 2
    [] v.t = "boolean" -> IF v.n = 1 THEN 4 ELSE 5
    [] OTHER -> 4

RECURSIVE PropsLen(_)
PropsLen(ps) ==
  IF ps = <<>> THEN 0
  ELSE 4 + (Len(Head(ps)[1]) + 2) + 2 + ValLen(Head(ps)[2])
       + (IF Len(ps) > 1 THEN 2 ELSE 0) + PropsLen(Tail(ps))

\* "{}" or "{\n" props "\n  }"
ElemLen(e) ==
  IF ~e.obj THEN 4
  ELSE IF e.props = <<>> THEN 2
  ELSE 2 + PropsLen(e.props) + 4

RECURSIVE ElemsLen(_)
ElemsLen(es) ==
  IF es = <<>> THEN 0
  ELSE 2 + ElemLen(Head(es)) + (IF Len(es) > 1 THEN 2 ELSE 0) + ElemsLen(Tail(es))

\* The length of the indented text: "[]" or "[\n" elements "\n]"
TextLen(doc) == IF doc = <<>> THEN 2 ELSE 2 + ElemsLen(doc) + 2

RECURSIVE Lookup(_, _)
Lookup(ps, k) ==
  IF ps = <<>> THEN JUndef
  ELSE IF Head(ps)[1] = k THEN Head(ps)[2]
  ELSE Lookup(Tail(ps), k)

\* JSON.parse of an array text
Parse(doc) ==
  [i \in 1..Len(doc) |->
     IF doc[i].obj
     THEN Book(Lookup(doc[i].props, "id"), Lookup(doc[i].props, "title"),
               Lookup(doc[i].props, "author"), Lookup(doc[i].props, "available"))
     ELSE JNull]

\* ------------------------------------------------------------ the file
\* kind: "absent" (no file), "array" (the text parses to an array),
\* "nonarray" (it parses to another JSON value), "invalid" (it does not parse;
\* the empty text is invalid).
NoFile == [kind |-> "absent", len |-> 0, doc |-> <<>>]
ArrayText(doc) == [kind |-> "array", len |-> TextLen(doc), doc |-> doc]
InvalidText(n) == [kind |-> "invalid", len |-> n, doc |-> <<>>]
NonArrayText == [kind |-> "nonarray", len |-> 2, doc |-> <<>>]

\* fs.writeFile, first step: open(DATA_FILE, 'w') creates or truncates.
Truncated == InvalidText(0)

\* fs.writeFile, second step: the text is written at offset 0 of what the
\* file holds by then.  A longer text left there by another writer since the
\* truncation keeps its tail, and the result does not parse.
Overlay(f, text) ==
  IF text.len >= f.len THEN text ELSE InvalidText(f.len)

\* A loader that also rejects a text that parses to a value of the wrong
\* shape.
ReadThrowsWrongShape(f) == f.kind \in {"invalid", "nonarray"}

\* readBooks: the outcome of readFile and JSON.parse on the file
ReadThrows(f) == f.kind = "invalid"

readBooks(f) ==
  CASE f.kind = "absent" -> <<>>
    [] f.kind = "array" -> Parse(f.doc)
    [] OTHER -> <<>>

SeenOf(f) == IF f.kind = "absent" THEN "ENOENT" ELSE f.kind

\* ------------------------------------------------------------ handlers' code
RECURSIVE Reduce(_, _)
Reduce(bs, max) ==
  IF bs = <<>> THEN max
  ELSE Reduce(Tail(bs),
              IF TypeOf(Head(bs).id) = "number" /\ Head(bs).id.n > max
              THEN Head(bs).id.n ELSE max)

\* Mutant: the comparison is turned round, so the fold never leaves 0.
RECURSIVE ReduceLess(_, _)
ReduceLess(bs, max) ==
  IF bs = <<>> THEN max
  ELSE ReduceLess(Tail(bs),
                  IF TypeOf(Head(bs).id) = "number" /\ Head(bs).id.n < max
                  THEN Head(bs).id.n ELSE max)

maxIdLess(bs) == ReduceLess(bs, 0)

\* Mutant: the fold keeps the last numeric id it meets, not the greatest.
RECURSIVE ReduceLast(_, _)
ReduceLast(bs, max) ==
  IF bs = <<>> THEN max
  ELSE ReduceLast(Tail(bs),
                  IF TypeOf(Head(bs).id) = "number" THEN Head(bs).id.n ELSE max)

maxIdLast(bs) == ReduceLast(bs, 0)

\* books.reduce((max, b) => typeof b.id === 'number' && b.id > max ? b.id : max, 0)
maxId(bs) == Reduce(bs, 0)

\* reading b.id of a null element throws a TypeError
ReduceThrows(bs) == \E i \in 1..Len(bs) : ~IsObject(bs[i])

\* Mutant: the new id is maxId, the + 1 forgotten.
newBookNoIncrement(bs, b) ==
  Book(JNum(Reduce(bs, 0)), String(b.title), String(b.author),
       IF TypeOf(b.available) = "boolean" THEN b.available ELSE JBool(FALSE))

\* Mutant: the new id is the number of records plus one.
newBookByCount(bs, b) ==
  Book(JNum(Len(bs) + 1), String(b.title), String(b.author),
       IF TypeOf(b.available) = "boolean" THEN b.available ELSE JBool(FALSE))

\* Mutant: available is coerced by truthiness, Boolean(available).
newBookCoerced(bs, b) ==
  Book(JNum(Reduce(bs, 0) + 1), String(b.title), String(b.author),
       Boolean(b.available))

newBook(bs, b) ==
  Book(JNum(maxId(bs) + 1), String(b.title), String(b.author),
       IF TypeOf(b.available) = "boolean" THEN b.available ELSE JBool(FALSE))

\* Mutant: the predicate is b => b && b.id, true of any record with an id.
findIndexAnyId(bs, id) ==
  LET hits == {i \in 1..Len(bs) : IsObject(bs[i]) /\ Truthy(bs[i].id)}
  IN IF hits = {} THEN 0 - 1
     ELSE (CHOOSE i \in hits : \A j \in hits : i <= j) - 1

\* books.findIndex(b => b && b.id === id): 0-based, -1 when there is none
findIndex(bs, id) ==
  LET hits == {i \in 1..Len(bs) : IsObject(bs[i]) /\ bs[i].id = id}
  IN IF hits = {} THEN 0 - 1
     ELSE (CHOOSE i \in hits : \A j \in hits : i <= j) - 1

\* An update that assigns all three fields, supplied or not.
applyUpdatesAll(book, updates) ==
  [book EXCEPT
     !.title = String(updates.title),
     !.author = String(updates.author),
     !.available = Boolean(updates.available)]

\* lines 112-114: only the supplied fields are overwritten
applyUpdates(book, updates) ==
  [book EXCEPT
     !.title = IF TypeOf(updates.title) # "undefined"
               THEN String(updates.title) ELSE @,
     !.author = IF TypeOf(updates.author) # "undefined"
                THEN String(updates.author) ELSE @,
     !.available = IF TypeOf(updates.available) # "undefined"
                   THEN Boolean(updates.available) ELSE @]

\* A handler that puts the new record first: books.unshift(newBook)
unshift(bs, b) == <<b>> \o bs

\* books.push(newBook)
push(bs, b) == Append(bs, b)

\* A removal of the last element, whatever the index found: books.pop()
spliceLast(bs, idx) == SubSeq(bs, 1, Len(bs) - 1)

\* books.splice(idx, 1)
splice(bs, idx) == SubSeq(bs, 1, idx) \o SubSeq(bs, idx + 2, Len(bs))

\* A filter on the truthiness of available: books.filter(b => b && b.available)
RECURSIVE filterTruthy(_)
filterTruthy(bs) ==
  IF bs = <<>> THEN <<>>
  ELSE IF IsObject(Head(bs)) /\ Truthy(Head(bs).available)
  THEN <<Head(bs)>> \o filterTruthy(Tail(bs))
  ELSE filterTruthy(Tail(bs))

\* books.filter(b => b && b.available === true)
RECURSIVE filterAvailable(_)
filterAvailable(bs) ==
  IF bs = <<>> THEN <<>>
  ELSE IF IsObject(Head(bs)) /\ Head(bs).available = JBool(TRUE)
  THEN <<Head(bs)>> \o filterAvailable(Tail(bs))
  ELSE filterAvailable(Tail(bs))

\* ------------------------------------------------------------ state
VARIABLES
  file,    \* books.json
  pc,      \* per request: "idle", "read", "wopen", "wdata", "done"
  op,      \* per request: the route, "" before the request arrives
  idStr,   \* per request: req.params.id
  body,    \* per request: req.body
  books,   \* per request: the handler's local array
  resp,    \* per request: the response sent
  seen,    \* per request: what its readFile met
  wrote    \* per request: how far its writeFile got

vars == <<file, pc, op, idStr, body, books, resp, seen, wrote>>

NoResp == [status |-> 0, book |-> JUndef, list |-> <<>>]
Response(status, book, list) == [status |-> status, book |-> book, list |-> list]

InFlight(q) == pc[q] \notin {"idle", "done"}
Quiet == \A q \in Reqs : ~InFlight(q)

\* The n requests of a run arrive in the order of their numbers.
Arrives(p, n) ==
  /\ p <= n
  /\ pc[p] = "idle"
  /\ \A q \in 1..(p - 1) : pc[q] # "idle"

InitReqs ==
  /\ pc = [p \in Reqs |-> "idle"]
  /\ op = [p \in Reqs |-> ""]
  /\ idStr = [p \in Reqs |-> <<>>]
  /\ body = [p \in Reqs |-> JUndef]
  /\ books = [p \in Reqs |-> <<>>]
  /\ resp = [p \in Reqs |-> NoResp]
  /\ seen = [p \in Reqs |-> "none"]
  /\ wrote = [p \in Reqs |-> "none"]

\* A fresh deployment: books.json is absent, or holds the empty array.
Init ==
  /\ file \in {NoFile, ArrayText(<<>>)}
  /\ InitReqs

\* The handler is entered: the request's route and inputs are fixed.
Enter(p, route, id, b) ==
  /\ op' = [op EXCEPT ![p] = route]
  /\ idStr' = [idStr EXCEPT ![p] = id]
  /\ body' = [body EXCEPT ![p] = b]

\* res.status(..).json(..) and return, with no await left: the handler's
\* local array is gone with it.
Reply(p, r) ==
  /\ resp' = [resp EXCEPT ![p] = r]
  /\ pc' = [pc EXCEPT ![p] = "done"]
  /\ books' = [books EXCEPT ![p] = <<>>]

\* The handler reaches `await readBooks()`.
AwaitRead(p) ==
  /\ pc' = [pc EXCEPT ![p] = "read"]
  /\ UNCHANGED <<resp, books>>

\* GET /books, up to its await (lines 44-46)
ListAll(p) ==
  /\ Enter(p, "GET /books", <<>>, JUndef)
  /\ AwaitRead(p)
  /\ UNCHANGED <<file, seen, wrote>>

\* GET /books/available, up to its await (lines 54-56)
ListAvailable(p) ==
  /\ Enter(p, "GET /books/available", <<>>, JUndef)
  /\ AwaitRead(p)
  /\ UNCHANGED <<file, seen, wrote>>

\* POST /books, up to its await (lines 64-72)
Create(p, b) ==
  /\ Enter(p, "POST /books", <<>>, b)
  /\ IF ~Truthy(BodyOrEmpty(b).title) \/ ~Truthy(BodyOrEmpty(b).author)
     THEN Reply(p, Response(400, JUndef, <<>>))
     ELSE AwaitRead(p)
  /\ UNCHANGED <<file, seen, wrote>>

\* PUT /books/:id, up to its await (lines 91-105)
Update(p, id, b) ==
  /\ Enter(p, "PUT /books/:id", id, b)
  /\ IF parseId(id) = JNull
     THEN Reply(p, Response(400, JUndef, <<>>))
     ELSE IF ~hasAllowed(BodyOrEmpty(b))
     THEN Reply(p, Response(400, JUndef, <<>>))
     ELSE AwaitRead(p)
  /\ UNCHANGED <<file, seen, wrote>>

\* DELETE /books/:id, up to its await (lines 126-133)
Delete(p, id) ==
  /\ Enter(p, "DELETE /books/:id", id, JUndef)
  /\ IF parseId(id) = JNull
     THEN Reply(p, Response(400, JUndef, <<>>))
     ELSE AwaitRead(p)
  /\ UNCHANGED <<file, seen, wrote>>

\* The handler reaches `await writeBooks(books)` with its array bs.
AwaitWrite(p, bs) ==
  /\ books' = [books EXCEPT ![p] = bs]
  /\ pc' = [pc EXCEPT ![p] = "wopen"]
  /\ UNCHANGED resp

\* What each handler does with the array readBooks returned, up to its next
\* await or its response.
Continue(p, bs) ==
  LET id == parseId(idStr[p])
      idx == findIndex(bs, id)
      updates == BodyOrEmpty(body[p])
  IN CASE op[p] = "GET /books" ->
            Reply(p, Response(200, JUndef, bs))
       [] op[p] = "GET /books/available" ->
            Reply(p, Response(200, JUndef, filterAvailable(bs)))
       [] op[p] = "POST /books" ->
            IF ReduceThrows(bs)
            THEN Reply(p, Response(500, JUndef, <<>>))
            ELSE AwaitWrite(p, push(bs, newBook(bs, updates)))
       [] op[p] = "PUT /books/:id" ->
            IF idx = 0 - 1
            THEN Reply(p, Response(404, JUndef, <<>>))
            ELSE AwaitWrite(p, [bs EXCEPT ![idx + 1] = applyUpdates(@, updates)])
       [] op[p] = "DELETE /books/:id" ->
            IF idx = 0 - 1
            THEN Reply(p, Response(404, JUndef, <<>>))
            ELSE AwaitWrite(p, splice(bs, idx))

\* readBooks completes: readFile returned the text (or ENOENT) and
\* JSON.parse ran; a text that does not parse is rethrown and the handler's
\* catch answers 500.
ReadBooks(p) ==
  /\ pc[p] = "read"
  /\ seen' = [seen EXCEPT ![p] = SeenOf(file)]
  /\ IF ReadThrows(file)
     THEN Reply(p, Response(500, JUndef, <<>>))
     ELSE Continue(p, readBooks(file))
  /\ UNCHANGED <<file, op, idStr, body, wrote>>

\* The file operations that have failed so far.
Faults ==
  Cardinality({q \in Reqs : seen[q] = "EIO" \/ wrote[q] \in {"openerr", "dataerr"}})

\* readFile fails with an error other than ENOENT (lines 19-20).
ReadBooksError(p) ==
  /\ pc[p] = "read"
  /\ Faults < MaxFaults
  /\ seen' = [seen EXCEPT ![p] = "EIO"]
  /\ Reply(p, Response(500, JUndef, <<>>))
  /\ UNCHANGED <<file, op, idStr, body, wrote>>

\* writeBooks, first step: the file is opened for writing and truncated.
WriteOpen(p) ==
  /\ pc[p] = "wopen"
  /\ file' = Truncated
  /\ wrote' = [wrote EXCEPT ![p] = "open"]
  /\ pc' = [pc EXCEPT ![p] = "wdata"]
  /\ UNCHANGED <<op, idStr, body, books, resp, seen>>

\* A handler whose catch logs the failed open and sends no response.
WriteOpenErrorUnanswered(p) ==
  /\ pc[p] = "wopen"
  /\ Faults < MaxFaults
  /\ wrote' = [wrote EXCEPT ![p] = "openerr"]
  /\ pc' = [pc EXCEPT ![p] = "failed"]
  /\ UNCHANGED <<file, op, idStr, body, books, resp, seen>>

\* The open fails (lines 27-29): the file is as it was, the handler's catch
\* answers 500.
WriteOpenError(p) ==
  /\ pc[p] = "wopen"
  /\ Faults < MaxFaults
  /\ wrote' = [wrote EXCEPT ![p] = "openerr"]
  /\ Reply(p, Response(500, JUndef, <<>>))
  /\ UNCHANGED <<file, op, idStr, body, seen>>

\* The response of a handler whose write succeeded (lines 84, 119, 142).
Success(p) ==
  CASE op[p] = "POST /books" -> Response(201, books[p][Len(books[p])], <<>>)
    [] op[p] = "PUT /books/:id" ->
         Response(200, books[p][findIndex(books[p], parseId(idStr[p])) + 1], <<>>)
    [] OTHER -> Response(204, JUndef, <<>>)

\* writeBooks, second step: the text is written and the handler responds.
WriteData(p) ==
  /\ pc[p] = "wdata"
  /\ file' = Overlay(file, ArrayText(Stringify(books[p])))
  /\ wrote' = [wrote EXCEPT ![p] = "data"]
  /\ Reply(p, Success(p))
  /\ UNCHANGED <<op, idStr, body, seen>>

\* A writeBooks whose catch logs the error and does not rethrow it: the
\* handler goes on to its success response.
WriteDataErrorSwallowed(p) ==
  /\ pc[p] = "wdata"
  /\ Faults < MaxFaults
  /\ wrote' = [wrote EXCEPT ![p] = "dataerr"]
  /\ Reply(p, Success(p))
  /\ UNCHANGED <<file, op, idStr, body, seen>>

\* The write fails after the truncation (lines 27-29).
WriteDataError(p) ==
  /\ pc[p] = "wdata"
  /\ Faults < MaxFaults
  /\ wrote' = [wrote EXCEPT ![p] = "dataerr"]
  /\ Reply(p, Response(500, JUndef, <<>>))
  /\ UNCHANGED <<file, op, idStr, body, seen>>

\* The steps every request takes once its handler has been entered.
Step(p) ==
  \/ ReadBooks(p)
  \/ ReadBooksError(p)
  \/ WriteOpen(p)
  \/ WriteOpenError(p)
  \/ WriteData(p)
  \/ WriteDataError(p)

\* ------------------------------------------------------------ inputs
A == JStr("A")
B == JStr("B")
ValidBody == Body(A, B, JUndef, FALSE)
OnlyExtra == Body(JUndef, JUndef, JUndef, TRUE)

Pairs(ids, bodies) == {<<id, b>> : id \in ids, b \in bodies}

\* What the requests of a run carry when their handlers interleave.
CreateBodies == {ValidBody}
IdStrs == {<<"1">>, <<"2">>}
Updates == Pairs(IdStrs, {Body(JStr("T"), JUndef, JUndef, FALSE), OnlyExtra})

\* What the requests carry when they are served one at a time.
SeqCreateBodies ==
  { ValidBody,
    Body(A, B, JBool(TRUE), FALSE),
    Body(A, B, JStr("yes"), FALSE),
    Body(JStr(""), B, JUndef, FALSE),
    Body(A, JUndef, JBool(TRUE), FALSE) }

SeqIdStrs == {<<"1">>, <<"2">>, <<"x">>}

SeqUpdates ==
  { <<(<<"1">>), Body(JStr(""), JUndef, JUndef, FALSE)>>,
    <<(<<"2">>), Body(JStr("T"), JUndef, JUndef, FALSE)>>,
    <<(<<"x">>), Body(JStr("T"), JUndef, JUndef, FALSE)>>,
    <<(<<"1">>), OnlyExtra>> }

\* What the requests carry in a run that starts from an arbitrary file.
FileCreateBodies ==
  { Body(A, B, JBool(TRUE), FALSE),
    Body(JNum(7), B, JStr("yes"), FALSE),
    Body(A, JUndef, JBool(TRUE), FALSE) }

FileIdStrs == {<<"2">>, <<"-", "1">>, <<"x">>}

FileUpdates ==
  { <<(<<"2">>), Body(JStr("T"), JUndef, JUndef, FALSE)>>,
    <<(<<"2", "x">>), Body(JUndef, JStr(""), JStr("no"), TRUE)>>,
    <<(<<"-", "1">>), Body(JUndef, JUndef, JBool(FALSE), FALSE)>>,
    <<(<<"2">>), JUndef>> }

\* The elements an arbitrary books.json may hold: books as the service
\* writes them, and what an edit by hand may leave (an id that is negative,
\* a string or missing; an available that is no boolean or missing; null).
FileElems ==
  { Book(JNum(1), A, B, JBool(FALSE)),
    Book(JNum(2), A, B, JBool(TRUE)),
    Book(JNum(0 - 1), A, B, JStr("yes")),
    Book(JStr("7"), A, B, JUndef),
    Book(JUndef, A, B, JBool(TRUE)),
    JNull }

SeqsUpTo(S, n) == UNION {[1..k -> S] : k \in 0..n}

FileArrays == SeqsUpTo(FileElems, MaxFileLen)

\* ------------------------------------------------------------ specifications
\* The p-th of n requests arrives and its handler runs to its first await.
Arrival(p, n, creates, updates, ids) ==
  \/ Arrives(p, n) /\ ListAll(p)
  \/ Arrives(p, n) /\ ListAvailable(p)
  \/ \E b \in creates : Arrives(p, n) /\ Create(p, b)
  \/ \E u \in updates : Arrives(p, n) /\ Update(p, u[1], u[2])
  \/ \E id \in ids : Arrives(p, n) /\ Delete(p, id)

\* Requests arrive at any time: handlers interleave at their awaits.
Next ==
  \E p \in Reqs :
    \/ Arrival(p, MaxReq, CreateBodies, Updates, IdStrs)
    \/ Step(p)

Spec == Init /\ [][Next]_vars

\* Requests arrive at any time and every readFile and writeFile a handler
\* awaits settles, with a result or with an error: the handler then runs to
\* its next await or to its response.
FairNext ==
  \E p \in Reqs :
    \/ Arrival(p, MaxFairReq, CreateBodies, Updates, IdStrs)
    \/ Step(p)

FairSpec == Init /\ [][FairNext]_vars /\ \A p \in Reqs : WF_vars(Step(p))

\* One request at a time: the next arrives when the last has been answered.
SeqNext ==
  \E p \in Reqs :
    \/ Quiet /\ Arrival(p, MaxReq, SeqCreateBodies, SeqUpdates, SeqIdStrs)
    \/ Step(p)

SeqSpec == Init /\ [][SeqNext]_vars

\* The service starts on whatever books.json holds.
FileInit ==
  /\ file \in {ArrayText(Stringify(bs)) : bs \in FileArrays}
               \cup {NoFile, NonArrayText, InvalidText(1)}
  /\ InitReqs

FileNext ==
  \E p \in Reqs :
    \/ Quiet /\ Arrival(p, MaxFileReq, FileCreateBodies, FileUpdates, FileIdStrs)
    \/ Step(p)

FileSpec == FileInit /\ [][FileNext]_vars

\* The same starting files, with the Creates and Deletes of the interleaved
\* runs and the Updates above: the runs on which a single request's effect
\* on the collection it met is examined.
StoreNext ==
  \E p \in Reqs :
    \/ Quiet /\ Arrival(p, MaxFileReq, CreateBodies, FileUpdates, IdStrs)
    \/ Step(p)

StoreSpec == FileInit /\ [][StoreNext]_vars

\* ------------------------------------------------------------ properties
\* The collection books.json holds, when it holds one.
Stored == IF file.kind = "array" THEN Parse(file.doc) ELSE <<>>

StoredIds == {Stored[i].id : i \in 1..Len(Stored)}

Answered(p, route, status) ==
  pc[p] = "done" /\ op[p] = route /\ resp[p].status = status

\* C1: when every request of the run is a valid Create and each was answered
\* 201, the stored collection holds exactly that many records, with the ids
\* 1..N.  This is the claim as stated; the handlers' interleavings break it.
C1_ConcurrentCreates ==
  (\A p \in 1..MaxReq : Answered(p, "POST /books", 201))
    => /\ file.kind = "array"
       /\ Len(Stored) = MaxReq
       /\ StoredIds = {JNum(i) : i \in 1..MaxReq}

\* C2: from a fresh deployment, no two records of the stored collection ever
\* have the same id, whatever the requests and however they interleave.
C2_IdsUnique ==
  \A i, j \in 1..Len(Stored) : i # j => Stored[i].id # Stored[j].id

\* C2's case: two records are stored and an Update has been answered 200.
C2_Witness ==
  /\ Len(Stored) >= 2
  /\ \E p \in Reqs : Answered(p, "PUT /books/:id", 200)

Creates == {p \in 1..MaxReq : op[p] = "POST /books"}
Deletes == {p \in 1..MaxReq : op[p] = "DELETE /books/:id"}

\* C3: in a run of successful Creates (with distinct ids, so that no two of
\* them overlapped) and one successful Delete, the stored collection ends
\* without the deleted id and with every other created record.  This is the
\* claim as stated; a Delete that overlaps a Create breaks it.
C3_DeleteAndCreateBothKept ==
  ( /\ Creates \cup Deletes = 1..MaxReq
    /\ Cardinality(Deletes) = 1
    /\ \A c \in Creates : Answered(c, "POST /books", 201)
    /\ \A d \in Deletes : Answered(d, "DELETE /books/:id", 204)
    /\ \A c1, c2 \in Creates : c1 # c2 => resp[c1].book.id # resp[c2].book.id )
    => /\ file.kind = "array"
       /\ \A d \in Deletes : parseId(idStr[d]) \notin StoredIds
       /\ \A d \in Deletes, c \in Creates :
            resp[c].book.id # parseId(idStr[d])
              => \E i \in 1..Len(Stored) : Stored[i] = resp[c].book

\* A request that has read the collection and not yet finished writing it.
InCycle(p) == pc[p] \in {"wopen", "wdata"}

\* C4: no two mutating requests are between their read and the end of their
\* write at the same time.  This is the claim as stated; nothing in the
\* handlers keeps a second one out.
C4_MutationsSerialized ==
  \A p, q \in Reqs : p # q => ~(InCycle(p) /\ InCycle(q))

ListRoutes == {"GET /books", "GET /books/available"}

\* C5: a List whose read completes while another request's write is under way
\* is answered 200 (unless its own readFile failed).  This is the claim as
\* stated; the read meets the truncated file.
C5_ConsistentReads ==
  [][ \A p \in Reqs :
        ( /\ op[p] \in ListRoutes
          /\ pc[p] = "read"
          /\ pc'[p] = "done"
          /\ seen'[p] # "EIO"
          /\ \E q \in Reqs : pc[q] = "wdata" )
          => resp'[p].status = 200 ]_vars

\* The id of the record a Create has built, while its write is pending.
NewId(p) == books[p][Len(books[p])].id

NumericIds(bs) ==
  {bs[i].id.n : i \in {j \in 1..Len(bs) : IsObject(bs[j]) /\ bs[j].id.t = "number"}}

\* C6: served one at a time from a fresh deployment, with no record deleted
\* so far, the k-th Create that is answered 201 returns id k.
C6_SequentialIds ==
  \A p \in Reqs :
    ( /\ Answered(p, "POST /books", 201)
      /\ ~\E q \in 1..p : Answered(q, "DELETE /books/:id", 204) )
      => resp[p].book.id =
           JNum(Cardinality({q \in 1..p : Answered(q, "POST /books", 201)}))

\* C6's case: the last request of the run is the third Create answered 201.
C6_Witness ==
  /\ \A p \in 1..MaxReq : Answered(p, "POST /books", 201)
  /\ resp[MaxReq].book.id = JNum(MaxReq)

\* Request d is a Delete answered 204 and the next request, served right
\* after it, is a Create that has built its record.
DeleteThenCreate(d) ==
  /\ d + 1 \in Reqs
  /\ Answered(d, "DELETE /books/:id", 204)
  /\ op[d + 1] = "POST /books"
  /\ pc[d + 1] = "wopen"

DeletedId(d) == parseId(idStr[d])

\* The deleted id was the greatest: no id that remains exceeds it.
WasMax(d) == \A n \in NumericIds(Stored) : n <= DeletedId(d).n

\* Books as the service itself leaves them: positive ids, no two alike.
ServiceMade(bs) ==
  /\ \A i \in 1..Len(bs) : IsObject(bs[i]) /\ bs[i].id.t = "number" /\ bs[i].id.n > 0
  /\ \A i, j \in 1..Len(bs) : i # j => bs[i].id # bs[j].id

\* C7, as stated: after the record with the greatest id is deleted, the next
\* Create is given the deleted id.
C7_IdReuse ==
  \A d \in Reqs :
    (DeleteThenCreate(d) /\ ServiceMade(Stored) /\ DeletedId(d).n > 0 /\ WasMax(d))
      => NewId(d + 1) = DeletedId(d)

\* C7, amended: after the record with the greatest id is deleted, the next
\* Create is given the greatest remaining id (0 when none remains) plus one;
\* that is the deleted id exactly when the deleted id was one more than the
\* greatest remaining id.
C7_IdReuseWhenNoGap ==
  \A d \in Reqs :
    (DeleteThenCreate(d) /\ WasMax(d))
      => LET top == MaxOf(NumericIds(Stored) \cup {0})
         IN /\ NewId(d + 1) = JNum(top + 1)
            /\ (NewId(d + 1) = DeletedId(d)) <=> (DeletedId(d).n = top + 1)

\* C7's case: the greatest id was deleted, a record remains, and the Create
\* is given the deleted id again.
C7_Witness ==
  \E d \in Reqs :
    /\ DeleteThenCreate(d)
    /\ WasMax(d)
    /\ Len(Stored) > 0
    /\ NewId(d + 1) = DeletedId(d)

\* A Create served alone has built its record from the collection the file
\* still holds.
Creating(p) == op[p] = "POST /books" /\ pc[p] = "wopen"

\* C8, as stated: the new id is the greatest numeric id of the collection
\* read, or 0 if it has none, plus one.
C8_MaxPlusOne ==
  \A p \in Reqs :
    Creating(p)
      => LET nums == NumericIds(Stored)
         IN NewId(p) = JNum((IF nums = {} THEN 0 ELSE MaxOf(nums)) + 1)

\* C8, amended: the new id is the greatest of 0 and the numeric ids of the
\* collection read, plus one; it is positive and exceeds every numeric id.
C8_MaxWithZeroPlusOne ==
  \A p \in Reqs :
    Creating(p)
      => LET nums == NumericIds(Stored)
         IN /\ NewId(p) = JNum(MaxOf(nums \cup {0}) + 1)
            /\ NewId(p).n > 0
            /\ \A n \in nums : NewId(p).n > n

\* C8's case: a Create on a collection with a gap below its greatest id and
\* a record whose id is no number.
C8_Witness ==
  \E p \in Reqs :
    /\ Creating(p)
    /\ \E i \in 1..Len(Stored) : Stored[i].id.t # "number"
    /\ \E n \in NumericIds(Stored) : n > Cardinality(NumericIds(Stored))

NoRecordWithId(bs, id) ==
  \A i \in 1..Len(bs) : ~IsObject(bs[i]) \/ bs[i].id # id

\* C9: when an Update's read completes on a collection that holds no record
\* with its id, the handler answers 404 in that step, the file is as it was
\* and the request has written nothing.
C9_UnknownIdUpdate ==
  [][ \A p \in Reqs :
        ( /\ op[p] = "PUT /books/:id"
          /\ pc[p] = "read"
          /\ pc'[p] # "read"
          /\ seen'[p] \notin {"EIO", "invalid"}
          /\ NoRecordWithId(Stored, parseId(idStr[p])) )
          => /\ pc'[p] = "done"
             /\ resp'[p].status = 404
             /\ wrote'[p] = "none"
             /\ file' = file ]_vars

\* C9's case: an Update was answered 404 on a collection that holds records.
C9_Witness ==
  \E p \in Reqs : Answered(p, "PUT /books/:id", 404) /\ Len(Stored) > 0

NoAllowedKey(b) ==
  b = JUndef \/ (b.title = JUndef /\ b.author = JUndef /\ b.available = JUndef)

\* An Update whose body has none of title, author, available was answered
\* 400 on arrival and has neither read nor written.
RejectedUnread(p) ==
  (op[p] = "PUT /books/:id" /\ NoAllowedKey(body[p]))
    => /\ pc[p] = "done"
       /\ resp[p].status = 400
       /\ seen[p] = "none"
       /\ wrote[p] = "none"

\* C10: an Update whose body has none of the three keys is answered 400 in
\* the step it arrives in, which leaves the file as it was; the request
\* never reads or writes.
C10_NoFieldUpdate ==
  /\ [](\A p \in Reqs : RejectedUnread(p))
  /\ [][ \A p \in Reqs :
           (op[p] = "" /\ op'[p] = "PUT /books/:id" /\ NoAllowedKey(body'[p]))
             => file' = file ]_vars

\* C10's case: such an Update, for an id the stored collection holds, was
\* answered 400.
C10_Witness ==
  \E p \in Reqs :
    /\ Answered(p, "PUT /books/:id", 400)
    /\ NoAllowedKey(body[p])
    /\ parseId(idStr[p]) \in StoredIds

\* Request p is the last that has arrived: what books.json holds has not
\* been touched by a later request.
Latest(p) == pc[p] # "idle" /\ \A q \in Reqs : q > p => pc[q] = "idle"

\* The record's available is the boolean true.
IsAvailable(b) == b # JNull /\ b.available = JBool(TRUE)

\* Request p listed all books and the next request listed the available
\* ones, both answered 200, with no mutation between the two.
ListedBoth(p) ==
  /\ p + 1 \in Reqs
  /\ Answered(p, "GET /books", 200)
  /\ Answered(p + 1, "GET /books/available", 200)

\* C11: over one stored collection, List available returns exactly the
\* records of List all whose available is the boolean true, in the order
\* List all returns them; a record whose available is missing or is no
\* boolean is never returned.
C11_AvailableSubsequence ==
  \A p \in Reqs :
    ListedBoth(p) =>
      /\ resp[p + 1].list = SelectSeq(resp[p].list, IsAvailable)
      /\ \A i \in 1..Len(resp[p + 1].list) :
           TypeOf(resp[p + 1].list[i].available) = "boolean"

\* C11's case: the two lists differ, List all returned a record whose
\* available is a truthy string and List available returned a record.
C11_Witness ==
  \E p \in Reqs :
    /\ ListedBoth(p)
    /\ Len(resp[p + 1].list) = 1
    /\ \E i \in 1..Len(resp[p].list) :
         /\ resp[p].list[i] # JNull
         /\ resp[p].list[i].available = JStr("yes")

\* C12: with one request served at a time, what readBooks returns from the
\* file a completed writeBooks(X) left is X, record for record and in order;
\* and writing back what readBooks returns from a stored array gives the
\* file's own content.
C12_RoundTrip ==
  /\ [](file.kind = "array" => ArrayText(Stringify(readBooks(file))) = file)
  /\ [][ \A p \in Reqs :
           (pc[p] = "wdata" /\ wrote'[p] = "data")
             => /\ ~ReadThrows(file')
                /\ file'.kind = "array"
                /\ readBooks(file') = books[p] ]_vars

\* C12's case: a write completed and left two records, one of them with a
\* false available and one with an empty title.
C12_Witness ==
  \E p \in Reqs :
    /\ Latest(p)
    /\ wrote[p] = "data"
    /\ Len(Stored) = 2
    /\ \E i, j \in 1..2 :
         Stored[i].available = JBool(FALSE) /\ Stored[j].title = JStr("")

\* What request p's readBooks met: no file or a text of the wrong shape, which
\* load as the empty collection; a text that does not parse or a read error,
\* which make it throw.
LoadedEmpty(p) == seen[p] \in {"ENOENT", "nonarray"}
LoadFailed(p) == seen[p] \in {"invalid", "EIO"}

WriteFailed(p) == wrote[p] \in {"openerr", "dataerr"}

\* The handler of p went on with the empty collection: the lists answer 200
\* with no record, Update and Delete find no record, Create builds the
\* collection of one record with id 1 and is answered 201 unless its write
\* fails.
WentOnEmpty(p) ==
  CASE op[p] \in {"GET /books", "GET /books/available"} ->
         pc[p] = "done" /\ resp[p].status = 200 /\ resp[p].list = <<>>
    [] op[p] \in {"PUT /books/:id", "DELETE /books/:id"} ->
         pc[p] = "done" /\ resp[p].status = 404 /\ wrote[p] = "none"
    [] OTHER ->
         \/ /\ pc[p] \in {"wopen", "wdata"}
            /\ Len(books[p]) = 1
            /\ books[p][1].id = JNum(1)
         \/ /\ pc[p] = "done"
            /\ IF WriteFailed(p) THEN resp[p].status = 500
               ELSE resp[p].status = 201 /\ resp[p].book.id = JNum(1)

\* C13: a request whose readBooks met no file, or a text that parses to a
\* value that is no array, goes on with the empty collection and is not failed
\* by the load; a request whose readBooks met a text that does not parse, or
\* a read error other than non-existence, is answered 500 and has written
\* nothing.
C13_LoadOutcomes ==
  \A p \in Reqs :
    /\ LoadedEmpty(p) => WentOnEmpty(p)
    /\ LoadFailed(p) =>
         pc[p] = "done" /\ resp[p].status = 500 /\ wrote[p] = "none"

\* C13's case: a Create met a text of the wrong shape and went on to write;
\* the write failed after the truncation and the next request met a text
\* that does not parse.
C13_Witness ==
  \E p, q \in Reqs :
    /\ seen[p] = "nonarray"
    /\ op[p] = "POST /books"
    /\ seen[q] = "invalid"
    /\ resp[q].status = 500

\* Request p, served alone, has built the array it is about to write: the
\* file still holds what its readBooks returned.
AboutToWrite(p, route) == pc[p] = "wopen" /\ op[p] = route

Fields == {"title", "author", "available"}

\* The value an Update stores for a supplied field.
Coerced(k, v) == IF k = "available" THEN Boolean(v) ELSE String(v)

\* post is pre with the record at position i updated by u: the supplied
\* fields hold their coerced values, the id and the other fields are kept,
\* and every other position holds what it held.
UpdatedAt(pre, post, i, u) ==
  /\ Len(post) = Len(pre)
  /\ \A j \in 1..Len(pre) : j # i => post[j] = pre[j]
  /\ post[i].id = pre[i].id
  /\ \A k \in Fields :
       post[i][k] = IF u[k] = JUndef THEN pre[i][k] ELSE Coerced(k, u[k])

\* C14: the array an Update writes is the stored collection with only the
\* supplied fields changed on one record with the requested id; that
\* record's id, its other fields and its position, and every other record,
\* are as they were; the record is what a 200 returns and what is stored.
C14_UpdateFrame ==
  \A p \in Reqs :
    /\ AboutToWrite(p, "PUT /books/:id") =>
         \E i \in 1..Len(Stored) :
           /\ Stored[i] # JNull
           /\ Stored[i].id = parseId(idStr[p])
           /\ UpdatedAt(Stored, books[p], i, BodyOrEmpty(body[p]))
    /\ (Latest(p) /\ Answered(p, "PUT /books/:id", 200)) =>
         \E i \in 1..Len(Stored) :
           Stored[i] = resp[p].book /\ Stored[i].id = parseId(idStr[p])

\* C14's case: an Update that supplies a title and no author is about to
\* write a collection of two records that differs from the stored one.
C14_Witness ==
  \E p \in Reqs :
    /\ AboutToWrite(p, "PUT /books/:id")
    /\ body[p].title # JUndef
    /\ body[p].author = JUndef
    /\ Len(Stored) = 2
    /\ books[p] # Stored

\* s without its i-th element, the others in their order.
RemoveAt(s, i) == [j \in 1..(Len(s) - 1) |-> IF j < i THEN s[j] ELSE s[j + 1]]

\* C15: the array a Delete writes is the stored collection without one
\* record, which has the requested id, the others unchanged and in their
\* order; a Delete answered 204 has completed that write; a Delete answered
\* 404 met no record with its id and has written nothing; and a Delete is
\* not answered 404 while the collection it met holds its id.
C15_DeleteExactlyOne ==
  \A p \in Reqs :
    /\ AboutToWrite(p, "DELETE /books/:id") =>
         \E i \in 1..Len(Stored) :
           /\ Stored[i] # JNull
           /\ Stored[i].id = parseId(idStr[p])
           /\ books[p] = RemoveAt(Stored, i)
    /\ Answered(p, "DELETE /books/:id", 204) =>
         wrote[p] = "data" /\ (Latest(p) => file.kind = "array")
    /\ (Latest(p) /\ Answered(p, "DELETE /books/:id", 404)) =>
         wrote[p] = "none" /\ NoRecordWithId(Stored, parseId(idStr[p]))

\* C15's case: a Delete is about to write what is left of a collection of
\* two records whose second has the requested id, and an earlier Delete was
\* answered 404.
C15_Witness ==
  \E p, q \in Reqs :
    /\ AboutToWrite(p, "DELETE /books/:id")
    /\ Len(Stored) = 2
    /\ Stored[1] # JNull
    /\ Stored[1].id # parseId(idStr[p])
    /\ Answered(q, "DELETE /books/:id", 404)

MissingOrEmpty(v) == v = JUndef \/ v = JStr("")

\* The available of the record a Create builds from body b.
DefaultedAvailable(b) ==
  IF b.available \in {JBool(TRUE), JBool(FALSE)} THEN b.available
  ELSE JBool(FALSE)

\* C16: a Create whose title or author is missing or empty is answered 400
\* and has neither read nor written the file; any other Create builds,
\* returns with its 201 and stores as the last record one whose available is
\* the supplied value when that is a boolean, and false otherwise.
C16_CreateValidation ==
  \A p \in Reqs :
    op[p] = "POST /books" =>
      LET b == BodyOrEmpty(body[p])
      IN IF MissingOrEmpty(b.title) \/ MissingOrEmpty(b.author)
         THEN /\ Answered(p, "POST /books", 400)
              /\ seen[p] = "none"
              /\ wrote[p] = "none"
         ELSE /\ pc[p] \in {"wopen", "wdata"} =>
                   books[p][Len(books[p])].available = DefaultedAvailable(b)
              /\ resp[p].status # 400
              /\ resp[p].status = 201 =>
                   /\ resp[p].book.available = DefaultedAvailable(b)
                   /\ Latest(p) => Stored[Len(Stored)] = resp[p].book

\* C16's case: a Create with an empty title and one with no author were
\* answered 400, and a Create whose available is a string was answered 201.
C16_Witness ==
  \E p, q, r \in Reqs :
    /\ Answered(p, "POST /books", 400) /\ body[p].title = JStr("")
    /\ Answered(q, "POST /books", 400) /\ body[q].author = JUndef
    /\ Answered(r, "POST /books", 201) /\ body[r].available = JStr("yes")

NonEmptyText(v) == v.t = "string" /\ v.s # ""

\* C17: from an absent or empty file, with Creates, Updates and Deletes
\* served one at a time, every stored record has a non-empty title and a
\* non-empty author.  This is the claim as stated; an Update that supplies
\* an empty title breaks it.
C17_NonEmptyText ==
  \A i \in 1..Len(Stored) :
    NonEmptyText(Stored[i].title) /\ NonEmptyText(Stored[i].author)

SuccessStatus(p) ==
  CASE op[p] = "POST /books" -> 201
    [] op[p] = "DELETE /books/:id" -> 204
    [] OTHER -> 200

Mutation(p) == op[p] \in {"POST /books", "PUT /books/:id", "DELETE /books/:id"}

\* C18: a Create, Update or Delete whose writeBooks failed, at the open or at
\* the write, has been answered 500; and one answered with its success
\* status has completed its write.
C18_SaveFailurePropagates ==
  \A p \in Reqs :
    /\ WriteFailed(p) => pc[p] = "done" /\ resp[p].status = 500
    /\ (Mutation(p) /\ resp[p].status = SuccessStatus(p)) => wrote[p] = "data"

\* C18's case: the write of an Update failed after the truncation, while
\* another mutation was answered with its success status.
C18_Witness ==
  \E p, q \in Reqs :
    /\ op[p] = "PUT /books/:id"
    /\ wrote[p] = "dataerr"
    /\ resp[p].status = 500
    /\ Mutation(q)
    /\ resp[q].status = SuccessStatus(q)

\* The same record, before and after an Update: both null, or both objects
\* with one id.
SameRecord(a, b) == IF a = JNull \/ b = JNull THEN a = b ELSE a.id = b.id

\* Every element of post is an element of pre, and any two elements of post
\* are found in pre in the same order.
SameOrder(post, pre) ==
  /\ \A a \in 1..Len(post) : \E i \in 1..Len(pre) : pre[i] = post[a]
  /\ \A a, b \in 1..Len(post) :
       a < b => \E i, j \in 1..Len(pre) :
                  i < j /\ pre[i] = post[a] /\ pre[j] = post[b]

\* C19: with one request served at a time, the array a Create writes is the
\* stored collection followed by the new record; the array an Update writes
\* holds the same records at the same positions; the array a Delete writes
\* holds records of the stored collection, in the order they had there.
C19_InsertionOrder ==
  \A p \in Reqs :
    /\ AboutToWrite(p, "POST /books") =>
         /\ Len(books[p]) = Len(Stored) + 1
         /\ \A i \in 1..Len(Stored) : books[p][i] = Stored[i]
    /\ AboutToWrite(p, "PUT /books/:id") =>
         /\ Len(books[p]) = Len(Stored)
         /\ \A i \in 1..Len(Stored) : SameRecord(books[p][i], Stored[i])
    /\ AboutToWrite(p, "DELETE /books/:id") =>
         /\ Len(books[p]) < Len(Stored)
         /\ SameOrder(books[p], Stored)

\* C19's case: a Create appended a third record to a collection of two, and
\* a Delete is about to write the collection without its first record.
C19_Witness ==
  \E p, q \in Reqs :
    /\ Answered(q, "POST /books", 201)
    /\ AboutToWrite(p, "DELETE /books/:id")
    /\ Len(Stored) = 3
    /\ Stored[3] = resp[q].book
    /\ Len(books[p]) = 2
    /\ books[p][1] = Stored[2]
    /\ books[p][2] = Stored[3]

\* The statuses a request of each route may end with.
TerminalOutcomes(p) ==
  CASE op[p] \in {"GET /books", "GET /books/available"} -> {200, 500}
    [] op[p] = "POST /books" -> {201, 400, 500}
    [] op[p] = "PUT /books/:id" -> {200, 400, 404, 500}
    [] OTHER -> {204, 400, 404, 500}

\* C20: when every file operation settles, every request that has arrived
\* is eventually answered; an answered request has one status of its
\* route's set, and none before it is answered; a request answered 400 or
\* 404 has written nothing; and a response, once sent, is never replaced.
C20_ExactlyOneResponse ==
  /\ \A p \in Reqs : (pc[p] # "idle") ~> (pc[p] = "done")
  /\ [](\A p \in Reqs :
          IF pc[p] = "done"
          THEN /\ resp[p].status \in TerminalOutcomes(p)
               /\ resp[p].status \in {400, 404} => wrote[p] = "none"
          ELSE resp[p] = NoResp)
  /\ [][ \A p \in Reqs :
           pc[p] = "done" => pc'[p] = "done" /\ resp'[p] = resp[p] ]_vars

\* C20's case: all requests of the run are answered, one of them 404 and
\* one 500 after its write failed.
C20_Witness ==
  \E p, q \in Reqs :
    /\ \A x \in 1..MaxFairReq : pc[x] = "done"
    /\ resp[p].status = 404
    /\ resp[q].status = 500 /\ WriteFailed(q)

====
